---- MODULE Spec2Model ----
(***************************************************************************)
(* Pallet-logistics back end: the time-stamped storage ledger, the order   *)
(* reservations, the versioned location prices and the queries that read   *)
(* them (graphql/storage.ts, graphql/location.ts, graphql/order.ts,        *)
(* graphql/locationPrice.ts, graphql/report.ts).                           *)
(*                                                                         *)
(* Tables are sequences in insertion order; the autoincrement primary key  *)
(* of a row is its index.  Timestamps (createdAt, validFrom, currentDate)  *)
(* are clock readings 0..MaxTime; the clock only moves forward.            *)
(***************************************************************************)
EXTENDS Integers, Sequences, FiniteSets, TLC

VARIABLES
    now,            \* the clock: what new Date() returns
    storage,        \* table "storage": the committed snapshot rows
    pending,        \* Storage.bulkCreate calls issued but not yet executed:
                    \* [op: the resolver that made the call, rows: its rows]
    orders,         \* table "order": rows [orderId, locationId, status]
    orderRows,      \* table "orderRow": set of [orderId, productId, palletAmount]
    locationPrices, \* table "locationPrice": the price versions
    products,       \* table "product": the ids of the products
    report,         \* the report request in progress: its parsed input, the
                    \* locations it fetched, one createDailyReports call
                    \* per location, and the Report it returned
    query           \* the last request to locationsWithStorages, openOrders
                    \* or closedOrders: its argument, whether it has read
                    \* a table, and how it ended

vars == <<now, storage, pending, orders, orderRows, locationPrices, products, report, query>>

----------------------------------------------------------------------------
(* Bounds of the model *)

MaxTime == 1
MaxRows == 3
MaxPending == 2
MaxInputRows == 2
MaxAmount == 1
MaxAvailRows == 2
MaxOrders == 2
MaxOrderRows == 2
MaxDay == 3
MaxPrices == 3

----------------------------------------------------------------------------
(* The directories the engine consumes *)

\* location table, as addLocation fills it: one carrier and two processing
\* facilities
LocationType ==
    (1 :> "Kuljetusliike") @@ (2 :> "Käsittelylaitos") @@ (3 :> "Käsittelylaitos")

Locations == DOMAIN LocationType

Facilities == {l \in Locations : LocationType[l] = "Käsittelylaitos"}

Products == {1, 2}

\* an id that is in neither directory
UnknownId == 0

\* the pallet amounts callers send
Amounts == 0..MaxAmount

\* the amounts of the availability example: stock 20 with 8 reserved, and
\* with 8 + 17 = 25 reserved
StockAmounts == {20}

OrderAmounts == {8, 17}

\* prices in tenths: 50.0 and 67.4
Prices == {500, 674}

Days == 0..MaxDay

\* the locations that get price versions; location 3 never has one
PricedLocations == {1, 2}

----------------------------------------------------------------------------
(* Helpers *)

Max(S) == CHOOSE x \in S : \A y \in S : y <= x

RowsOf(table) == {table[i] : i \in DOMAIN table}

RECURSIVE SumAmounts(_)
SumAmounts(rows) ==
    IF rows = {} THEN 0
    ELSE LET r == CHOOSE x \in rows : TRUE
         IN  r.palletAmount + SumAmounts(rows \ {r})

RECURSIVE SumLen(_)
SumLen(batches) ==
    IF batches = <<>> THEN 0
    ELSE Len(Head(batches).rows) + SumLen(Tail(batches))

\* sequences over S of length 1..n
SeqsUpTo(S, n) == UNION {[1..k -> S] : k \in 1..n}

----------------------------------------------------------------------------
(* Snapshot store: writes *)

\* a slip: the write as an in-place update of the key's newest row
InsertRowsInPlace(table, rows) ==
    IF rows # <<>> /\ \E i \in DOMAIN table :
            table[i].locationId = rows[1].locationId
                /\ table[i].productId = rows[1].productId
    THEN LET i == Max({k \in DOMAIN table :
                        table[k].locationId = rows[1].locationId
                            /\ table[k].productId = rows[1].productId})
         IN  [table EXCEPT ![i].palletAmount = rows[1].palletAmount,
                           ![i].createdAt = rows[1].createdAt]
    ELSE table \o [i \in 1..Len(rows) |->
                [storageId    |-> Len(table) + i,
                 locationId   |-> rows[i].locationId,
                 productId    |-> rows[i].productId,
                 palletAmount |-> rows[i].palletAmount,
                 createdAt    |-> rows[i].createdAt]]

\* Storage.create / the INSERT of Storage.bulkCreate: the rows get the next
\* storageIds in order; nothing already in the table is touched.
InsertRows(table, rows) ==
    table \o [i \in 1..Len(rows) |->
                [storageId    |-> Len(table) + i,
                 locationId   |-> rows[i].locationId,
                 productId    |-> rows[i].productId,
                 palletAmount |-> rows[i].palletAmount,
                 createdAt    |-> rows[i].createdAt]]

\* Sequelize stamps createdAt on every row of a bulkCreate/create call with
\* one reading of the clock, taken when the call is made.
Stamp(rows, t) ==
    [i \in 1..Len(rows) |->
        [locationId   |-> rows[i].locationId,
         productId    |-> rows[i].productId,
         palletAmount |-> rows[i].palletAmount,
         createdAt    |-> t]]

----------------------------------------------------------------------------
(* Snapshot store: reads *)

\* SELECT "productId", MAX("createdAt") FROM storage
\* WHERE "locationId" = :locationId GROUP BY "productId"
MaxCreatedAtPerProduct(table, locationId) ==
    LET mine == {r \in RowsOf(table) : r.locationId = locationId}
    IN  {<<p, Max({r.createdAt : r \in {x \in mine : x.productId = p}})>> :
            p \in {r.productId : r \in mine}}

\* The "get current storages" findAll of collectPallets and addPallets: the
\* outer query ranges over the whole storage table and keeps the rows whose
\* (productId, createdAt) pair is in the subquery's result.
CurrentStorages(table, locationId) ==
    {r \in RowsOf(table) :
        <<r.productId, r.createdAt>> \in MaxCreatedAtPerProduct(table, locationId)}

\* storages.find(storage => storage.productId === row.productId): the first
\* match in the order the database returned the rows.  The query has no ORDER
\* BY, so any match can be first; one order serves the whole call.
Finds(storages) ==
    LET ps == {r.productId : r \in storages}
    IN  {f \in [ps -> storages] : \A p \in ps : f[p].productId = p}

\* locationsWithStorages, the Storage include: the window subquery keeps one
\* (productId, locationId, createdAt) triple per partition, the newest; the
\* join keeps every storage row of the location that carries such a triple.
NewestTriples(table) ==
    {<<r.productId, r.locationId, r.createdAt>> : r \in
        {x \in RowsOf(table) :
            \A y \in RowsOf(table) :
                (y.productId = x.productId /\ y.locationId = x.locationId)
                    => y.createdAt <= x.createdAt}}

LatestStorages(table, locationId) ==
    {r \in RowsOf(table) :
        /\ r.locationId = locationId
        /\ <<r.productId, locationId, r.createdAt>> \in NewestTriples(table)}

\* locationsWithStorages: the requested locations, each with the storage rows
\* joined to it.  The where of the Storage include makes the join an inner
\* one: a location with no storage row is not in the result.
LocationsWithStorages(table, locationIds) ==
    [l \in {x \in locationIds \cap Locations : LatestStorages(table, x) # {}} |->
        LatestStorages(table, l)]

----------------------------------------------------------------------------
(* Storage mutations *)

\* locationWithStorages, the Storage include: the storage rows of the
\* location whose createdAt is in
\*   SELECT MAX("createdAt") FROM "storage" WHERE "locationId" = :locationId
\*   GROUP BY "productId"
\* The subquery selects the timestamps alone, without the product.
LocationWithStorages(table, locationId) ==
    LET newest == {pair[2] : pair \in MaxCreatedAtPerProduct(table, locationId)}
    IN  {r \in RowsOf(table) :
            r.locationId = locationId /\ r.createdAt \in newest}

StorageRowInputs == [productId : Products, palletAmount : Amounts]

StorageInputs == SeqsUpTo(StorageRowInputs, MaxInputRows)

\* rows written and waiting to be written stay within the bound of the model
Room(n) ==
    /\ Len(pending) < MaxPending
    /\ Len(storage) + SumLen(pending) + n <= MaxRows

\* collectPallets, the rows.map: "add rows (palletAmount: current + input)"
\*   storage?.palletAmount ? storage.palletAmount + row.palletAmount
\*                         : row.palletAmount
CollectRows(find, locationId, storageRows) ==
    [i \in 1..Len(storageRows) |->
        LET row == storageRows[i]
            found == row.productId \in DOMAIN find
        IN  [locationId   |-> locationId,
             productId    |-> row.productId,
             palletAmount |->
                IF found /\ find[row.productId].palletAmount # 0
                THEN find[row.productId].palletAmount + row.palletAmount
                ELSE row.palletAmount]]

\* addPallets, the rows.map: the row found is not used
AddRows(find, locationId, storageRows) ==
    [i \in 1..Len(storageRows) |->
        [locationId   |-> locationId,
         productId    |-> storageRows[i].productId,
         palletAmount |-> storageRows[i].palletAmount]]

\* collectPallets: awaits the read, maps the rows, calls Storage.bulkCreate
\* without awaiting it and returns rows[0].
CollectPallets(locationId, storageRows) ==
    /\ Room(Len(storageRows))
    /\ \E find \in Finds(CurrentStorages(storage, locationId)) :
         pending' = Append(pending,
            [op   |-> "collectPallets",
             rows |-> Stamp(CollectRows(find, locationId, storageRows), now)])
    /\ UNCHANGED <<now, storage, orders, orderRows, locationPrices, products, report, query>>

\* addPallets: the same shape, with AddRows
AddPallets(locationId, storageRows) ==
    /\ Room(Len(storageRows))
    /\ \E find \in Finds(CurrentStorages(storage, locationId)) :
         pending' = Append(pending,
            [op   |-> "addPallets",
             rows |-> Stamp(AddRows(find, locationId, storageRows), now)])
    /\ UNCHANGED <<now, storage, orders, orderRows, locationPrices, products, report, query>>

\* The INSERT of an issued bulkCreate reaches the table.  Calls issued by
\* different requests run on different pool connections, in any order.
BulkCreate(i) ==
    /\ i \in DOMAIN pending
    /\ storage' = InsertRows(storage, pending[i].rows)
    /\ pending' = [j \in 1..(Len(pending) - 1) |->
                      IF j < i THEN pending[j] ELSE pending[j + 1]]
    /\ UNCHANGED <<now, orders, orderRows, locationPrices, products, report, query>>

\* a slip: the check for an existing storage row left out
StorageNotAddableUnlessNew(locationId, productId) ==
    LET location == locationId \in Locations
        product == productId \in products
    IN  ~location \/ ~product

\* addStorageToLocation, the two throws: the location or the product is not
\* found, or a storage row of the pair exists
StorageNotAddable(locationId, productId) ==
    LET location == locationId \in Locations
        product == productId \in products
        existingStorage ==
            \E r \in RowsOf(storage) :
                r.locationId = locationId /\ r.productId = productId
    IN  ~location \/ ~product \/ existingStorage

\* addStorageToLocation: every store call is awaited.  It throws when the
\* location or the product is missing or when a storage row of the pair
\* exists; otherwise it creates the row.
AddStorageToLocation(locationId, productId, palletAmount) ==
    IF StorageNotAddable(locationId, productId)
        THEN UNCHANGED vars
        ELSE /\ Len(storage) + SumLen(pending) < MaxRows
             /\ storage' = InsertRows(storage,
                    Stamp(<<[locationId   |-> locationId,
                             productId    |-> productId,
                             palletAmount |-> palletAmount]>>, now))
             /\ UNCHANGED <<now, pending, orders, orderRows, locationPrices, products, report, query>>

\* time passes
Tick(limit) ==
    /\ now < limit
    /\ now' = now + 1
    /\ UNCHANGED <<storage, pending, orders, orderRows, locationPrices, products, report, query>>

----------------------------------------------------------------------------
(* The storage ledger on its own *)

\* no query request made yet
NoQuery ==
    [name |-> "none", locationIds |-> {}, read |-> FALSE, outcome |-> "none",
     result |-> <<>>]

\* no report request in progress
NoReport ==
    [pc |-> "idle", call |-> 0, startDate |-> 0, endDate |-> 0,
     locationIds |-> {}, read |-> FALSE, locations |-> <<>>, calls |-> <<>>,
     result |-> <<>>, previous |-> <<>>]

Init ==
    /\ now = 0
    /\ storage = <<>>
    /\ pending = <<>>
    /\ orders = <<>>
    /\ orderRows = {}
    /\ locationPrices = <<>>
    /\ products = Products
    /\ report = NoReport
    /\ query = NoQuery

Next ==
    \/ Tick(MaxTime)
    \/ \E l \in Locations, sr \in StorageInputs : CollectPallets(l, sr)
    \/ \E l \in Locations, sr \in StorageInputs : AddPallets(l, sr)
    \/ \E i \in 1..MaxPending : BulkCreate(i)
    \/ \E l \in Locations \cup {UnknownId}, p \in Products \cup {UnknownId},
          q \in Amounts : AddStorageToLocation(l, p, q)

Spec == Init /\ [][Next]_vars

MaxRaceTime == 2

\* the amount every delta request adds
DeltaAmounts == {1}

\* requests that add to the stock of location 1: a first snapshot of a
\* product, then collectPallets calls (the resolver that writes current +
\* input), whose writes are in flight until the database executes them
NextRace ==
    \/ Tick(MaxRaceTime)
    \/ \E p \in Products, q \in StockAmounts : AddStorageToLocation(1, p, q)
    \/ \E p \in Products, n \in DeltaAmounts :
          /\ \E r \in RowsOf(storage) : r.locationId = 1 /\ r.productId = p
          /\ CollectPallets(1, <<[productId |-> p, palletAmount |-> n]>>)
    \/ \E i \in 1..MaxPending : BulkCreate(i)

SpecRace == Init /\ [][NextRace]_vars

\* palletAmount is a GraphQL Int and can be negative
SignedAmounts == -1..MaxAmount

\* the mutations of the snapshot store with signed amounts, one row a call
NextSigned ==
    \/ \E l \in Locations, p \in Products, q \in SignedAmounts :
          CollectPallets(l, <<[productId |-> p, palletAmount |-> q]>>)
    \/ \E l \in Locations, p \in Products, q \in SignedAmounts :
          AddPallets(l, <<[productId |-> p, palletAmount |-> q]>>)
    \/ \E i \in 1..MaxPending : BulkCreate(i)
    \/ \E l \in Locations, p \in Products, q \in SignedAmounts :
          AddStorageToLocation(l, p, q)

SpecSigned == Init /\ [][NextSigned]_vars

----------------------------------------------------------------------------
(* Orders *)

OrderRowInputs == [productId : Products, palletAmount : OrderAmounts]

\* addOrder: Order.create, then OrderRow.bulkCreate of the mapped rows.  The
\* primary key of orderRow is (orderId, productId): an input naming a product
\* twice makes the one INSERT fail, after the order itself was created.
AddOrder(locationId, status, rowInputs) ==
    LET orderId == Len(orders) + 1
        rows == {[orderId      |-> orderId,
                  productId    |-> rowInputs[i].productId,
                  palletAmount |-> rowInputs[i].palletAmount] :
                    i \in DOMAIN rowInputs}
        unique == \A i, j \in DOMAIN rowInputs :
                    rowInputs[i].productId = rowInputs[j].productId => i = j
    IN  /\ Len(orders) < MaxOrders
        /\ orders' = Append(orders, [orderId    |-> orderId,
                                     locationId |-> locationId,
                                     status     |-> status])
        /\ orderRows' = IF unique THEN orderRows \cup rows ELSE orderRows
        /\ UNCHANGED <<now, storage, pending, locationPrices, products, report, query>>

\* Order.findByPk(orderId, {include: [{model: OrderRow, where: {orderId}}]}):
\* an include with a where is an inner join, so an order without rows is not
\* found either
FindOrderWithRows(orderTable, rowTable, orderId) ==
    /\ orderId \in DOMAIN orderTable
    /\ \E row \in rowTable : row.orderId = orderId

\* collectOrder: findByPk; a missing order throws; order.status = 'Noudettu'
\* and save.  The pallets are not moved ("todo" in the source).
CollectOrder(orderId) ==
    IF ~FindOrderWithRows(orders, orderRows, orderId)
    THEN UNCHANGED vars
    ELSE /\ orders' = [orders EXCEPT ![orderId].status = "Noudettu"]
         /\ UNCHANGED <<now, storage, pending, orderRows, locationPrices, products, report, query>>

\* cancelOrder: the same with 'Peruttu'
CancelOrder(orderId) ==
    IF ~FindOrderWithRows(orders, orderRows, orderId)
    THEN UNCHANGED vars
    ELSE /\ orders' = [orders EXCEPT ![orderId].status = "Peruttu"]
         /\ UNCHANGED <<now, storage, pending, orderRows, locationPrices, products, report, query>>

----------------------------------------------------------------------------
(* Availability *)

\* availableStorages, the first findAll: storage rows joined to a location of
\* type 'Käsittelylaitos' whose (productId, createdAt) pair is in
\*   SELECT "productId", MAX("createdAt") FROM storage s JOIN location l ...
\*   WHERE "locationType" = 'Käsittelylaitos' GROUP BY "productId"
FacilityStorages(table) ==
    LET facility == {r \in RowsOf(table) :
                        LocationType[r.locationId] = "Käsittelylaitos"}
        newest == {<<p, Max({r.createdAt : r \in
                                {x \in facility : x.productId = p}})>> :
                      p \in {r.productId : r \in facility}}
    IN  {r \in facility : <<r.productId, r.createdAt>> \in newest}

\* a slip: every order that was not cancelled reserves
OpenOrderRowsNotCancelled(orderTable, rowTable) ==
    {row \in rowTable : orderTable[row.orderId].status # "Peruttu"}

\* availableStorages, the second findAll: the order rows whose order has
\* status 'Avattu'
OpenOrderRows(orderTable, rowTable) ==
    {row \in rowTable : orderTable[row.orderId].status = "Avattu"}

\* a slip: the difference clamped at zero
AvailableAmountClamped(storageRow, openRows) ==
    LET rows == {row \in openRows : row.productId = storageRow.productId}
        amount == SumAmounts(rows)
    IN  IF storageRow.palletAmount - amount < 0 THEN 0
        ELSE storageRow.palletAmount - amount

\* availableStorages, the map: "storages - orders = available pallets"
AvailableAmount(storageRow, openRows) ==
    LET rows == {row \in openRows : row.productId = storageRow.productId}
        amount == SumAmounts(rows)
    IN  storageRow.palletAmount - amount

\* availableStorages: one record per storage row the first findAll returned
AvailableStorages(table, orderTable, rowTable) ==
    {[storageId    |-> r.storageId,
      locationId   |-> r.locationId,
      productId    |-> r.productId,
      createdAt    |-> r.createdAt,
      palletAmount |-> AvailableAmount(r, OpenOrderRows(orderTable, rowTable))] :
        r \in FacilityStorages(table)}

----------------------------------------------------------------------------
(* The ledger of the facilities with the orders reserving it *)

NextAvail ==
    \/ Tick(MaxTime)
    \/ \E l \in Locations, p \in Products, q \in StockAmounts :
          /\ Len(storage) + SumLen(pending) < MaxAvailRows
          /\ AddStorageToLocation(l, p, q)
    \/ \E l \in Locations, p \in Products, q \in StockAmounts :
          /\ Len(storage) + SumLen(pending) < MaxAvailRows
          /\ AddPallets(l, <<[productId |-> p, palletAmount |-> q]>>)
    \/ \E i \in 1..MaxPending : BulkCreate(i)
    \/ \E l \in Locations \ Facilities, ri \in SeqsUpTo(OrderRowInputs, MaxOrderRows) :
          AddOrder(l, "Avattu", ri)
    \/ \E o \in 1..MaxOrders : CollectOrder(o)
    \/ \E o \in 1..MaxOrders : CancelOrder(o)

SpecAvail == Init /\ [][NextAvail]_vars

----------------------------------------------------------------------------
(* Price timeline *)

\* addLocationPrice: LocationPrice.create(locationPrice); no check of the
\* validFrom against the versions already there
AddLocationPrice(locationId, price, validFrom) ==
    /\ Len(locationPrices) < MaxPrices
    /\ locationPrices' = Append(locationPrices,
            [locationPriceId |-> Len(locationPrices) + 1,
             locationId      |-> locationId,
             price           |-> price,
             validFrom       |-> validFrom])
    /\ UNCHANGED <<now, storage, pending, orders, orderRows, products, report, query>>

\* a slip: Op.lt for Op.lte
LocationPriceBefore(table, locationId, currentDate) ==
    LET valid == {v \in RowsOf(table) :
                    v.locationId = locationId /\ v.validFrom < currentDate}
    IN  {v \in valid : \A w \in valid : w.validFrom <= v.validFrom}

\* locationWithStorages / locationsWithStorages, the LocationPrice include:
\*   where validFrom <= currentDate, order validFrom DESC, limit 1
\* The rows that can come first in that order; none when no version qualifies.
LocationPriceAt(table, locationId, currentDate) ==
    LET valid == {v \in RowsOf(table) :
                    v.locationId = locationId /\ v.validFrom <= currentDate}
    IN  {v \in valid : \A w \in valid : w.validFrom <= v.validFrom}

\* report, priceQuery: the versions valid on the start date
\*   WHERE lp.validFrom = (SELECT MAX(lp2.validFrom) FROM locationPrice lp2
\*          WHERE lp2.validFrom <= :startDate AND lp2.locationId = lp.locationId)
\*   AND lp.locationId IN (:locationIds)
PricesValidAtStart(table, locationIds, startDate) ==
    {lp \in RowsOf(table) :
        LET earlier == {lp2.validFrom : lp2 \in
                          {x \in RowsOf(table) :
                              x.validFrom <= startDate /\ x.locationId = lp.locationId}}
        IN  /\ earlier # {}
            /\ lp.validFrom = Max(earlier)
            /\ lp.locationId \in locationIds}

\* report, priceQuery: the price changes within the date range
PriceChangesWithin(table, locationIds, startDate, endDate) ==
    {lp \in RowsOf(table) :
        /\ lp.validFrom >= startDate
        /\ lp.validFrom <= endDate
        /\ lp.locationId \in locationIds}

\* a slip: the range scan alone
PriceRangeScan(table, locationIds, startDate, endDate) ==
    PriceChangesWithin(table, locationIds, startDate, endDate)

\* report, priceQuery: the UNION of the two selects
PriceQuery(table, locationIds, startDate, endDate) ==
    PricesValidAtStart(table, locationIds, startDate)
        \cup PriceChangesWithin(table, locationIds, startDate, endDate)

NextPrice ==
    \/ Tick(MaxDay)
    \/ \E l \in PricedLocations, price \in Prices, validFrom \in Days :
          AddLocationPrice(l, price, validFrom)

SpecPrice == Init /\ [][NextPrice]_vars

----------------------------------------------------------------------------
(* Report *)

MaxReportDay == 2
MaxReportPrices == 1
MaxReportRows == 1

\* createProductReports: palletAmount: 5, cost: 25 (both marked PLACEHOLDER)
PlaceholderPalletAmount == 5
PlaceholderCost == 25

\* ReportInput: startDate and endDate are calendar dates, here day numbers;
\* locationIds is any list of a location with prices, one without and an
\* unknown one, the empty list too
ReportDays == 0..MaxReportDay
ReportLocationIds == {1, 3, UnknownId}
ReportInputs ==
    [startDate : ReportDays, endDate : ReportDays,
     locationIds : SUBSET ReportLocationIds]

\* the rows of a findAll without an order clause, taken in primary key order
RECURSIVE FindAll(_)
FindAll(ids) ==
    IF ids = {} THEN <<>>
    ELSE LET first == CHOOSE x \in ids : \A y \in ids : x <= y
         IN  <<first>> \o FindAll(ids \ {first})

\* list.reduce((total, item) => total + item[field], 0)
RECURSIVE Reduce(_, _)
Reduce(list, field) ==
    IF list = <<>> THEN 0 ELSE list[1][field] + Reduce(Tail(list), field)

\* createProductReports: one product report per product, the same for every
\* location and date
CreateProductReports(location, date, productList) ==
    [i \in 1..Len(productList) |->
        [product      |-> productList[i],
         palletAmount |-> PlaceholderPalletAmount,
         cost         |-> PlaceholderCost]]

\* a slip: the daily cost adds up the pallet amounts
TotalDailyCostOfPallets(productReports) == Reduce(productReports, "palletAmount")

\* createDailyReports: totalDailyPallets and totalDailyCost of a day
TotalDailyPallets(productReports) == Reduce(productReports, "palletAmount")
TotalDailyCost(productReports) == Reduce(productReports, "cost")

\* createDailyReports, the loop body: the entry of the day d; date is the
\* ISO string of d taken when the entry is built
DailyReportOf(location, d, productList) ==
    LET productReports == CreateProductReports(location, d, productList)
    IN  [date              |-> d,
         productReports    |-> productReports,
         totalDailyPallets |-> TotalDailyPallets(productReports),
         totalDailyCost    |-> TotalDailyCost(productReports)]

\* a slip: d < endDate
LoopContinuesBeforeEnd(d, endDate) == d < endDate

\* createDailyReports, the loop condition d <= endDate
LoopContinues(d, endDate) == d <= endDate

\* a slip: the location total adds up the pallets
TotalCostOfPallets(dailyReports) == Reduce(dailyReports, "totalDailyPallets")

\* report: totalCost of a location
TotalCost(dailyReports) == Reduce(dailyReports, "totalDailyCost")

\* a slip: the location objects of the previous request are used again
FindLocationsCached(locationIds) ==
    IF report.result # <<>>
    THEN [i \in 1..Len(report.result) |-> report.result[i].location]
    ELSE LET found == FindAll({l \in Locations : l \in locationIds})
         IN  [i \in 1..Len(found) |->
                [locationId     |-> found[i],
                 storages       |-> {r \in RowsOf(storage) : r.locationId = found[i]},
                 locationPrices |-> <<>>]]

\* report: Location.findAll where locationId IN locationIds, include Storage
\* (a left join: a location without snapshots is returned too); the objects
\* are new and have no locationPrices yet
FindLocations(locationIds) ==
    LET found == FindAll({l \in Locations : l \in locationIds})
    IN  [i \in 1..Len(found) |->
            [locationId     |-> found[i],
             storages       |-> {r \in RowsOf(storage) : r.locationId = found[i]},
             locationPrices |-> <<>>]]

\* the rows of the price query as the list sequelize.query returns
PriceRows(rowSet) ==
    LET ids == FindAll({v.locationPriceId : v \in rowSet})
    IN  [k \in 1..Len(ids) |->
            CHOOSE v \in rowSet : v.locationPriceId = ids[k]]

\* report: locationPrices.forEach pushes each row onto the locationPrices of
\* its location
RECURSIVE WithLocationPrices(_, _)
WithLocationPrices(locations, priceRows) ==
    IF priceRows = <<>> THEN locations
    ELSE LET locationPrice == priceRows[1]
             pushed == [i \in 1..Len(locations) |->
                          IF locations[i].locationId = locationPrice.locationId
                          THEN [locations[i] EXCEPT !.locationPrices =
                                                        Append(@, locationPrice)]
                          ELSE locations[i]]
         IN  WithLocationPrices(pushed, Tail(priceRows))

\* createDailyReports has been called and waits for Product.findAll
NewCall == [pc |-> "findAll", products |-> <<>>, d |-> 0,
            dailyReports |-> <<>>, totalCost |-> 0]

\* report, up to locations.map: the dates are parsed, the locations and the
\* prices fetched, and createDailyReports is called once per location
StartReport(input, call, previous) ==
    LET startDate == input.startDate
        endDate == input.endDate
        locations == FindLocations(input.locationIds)
        priceRows == PriceRows(PriceQuery(locationPrices, input.locationIds,
                                          startDate, endDate))
    IN  [pc          |-> "running",
         call        |-> call,
         startDate   |-> startDate,
         endDate     |-> endDate,
         locationIds |-> input.locationIds,
         read        |-> TRUE,
         locations   |-> WithLocationPrices(locations, priceRows),
         calls       |-> [i \in 1..Len(locations) |-> NewCall],
         result      |-> <<>>,
         previous    |-> previous]

\* report with an empty locationIds: Location.findAll is run (and finds
\* nothing), then the price query is sent with an empty list for
\* IN (:locationIds), and either the database refuses it and the request
\* fails, or it has no rows and the request goes on with no location
StartedReports(input, call, previous) ==
    LET started == StartReport(input, call, previous)
    IN  IF input.locationIds = {}
        THEN {started, [started EXCEPT !.pc = "error"]}
        ELSE {started}

Report(input) ==
    /\ report.pc = "idle"
    /\ report' \in StartedReports(input, 1, <<>>)
    /\ UNCHANGED <<now, storage, pending, orders, orderRows, locationPrices,
                   products, query>>

\* createDailyReports of the i-th location: Product.findAll returns, the
\* loop variable d is a copy of startDate
FindProducts(i) ==
    /\ report.pc = "running"
    /\ i \in DOMAIN report.calls
    /\ report.calls[i].pc = "findAll"
    /\ report' = [report EXCEPT !.calls[i] =
                    [@ EXCEPT !.pc = "loop",
                              !.products = FindAll(products),
                              !.d = report.startDate]]
    /\ UNCHANGED <<now, storage, pending, orders, orderRows, locationPrices,
                   products, query>>

\* createDailyReports of the i-th location: one turn of the loop
DailyReportStep(i) ==
    /\ report.pc = "running"
    /\ i \in DOMAIN report.calls
    /\ report.calls[i].pc = "loop"
    /\ LoopContinues(report.calls[i].d, report.endDate)
    /\ report' = [report EXCEPT !.calls[i] =
                    [@ EXCEPT !.dailyReports =
                                 Append(@, DailyReportOf(report.locations[i],
                                                         report.calls[i].d,
                                                         report.calls[i].products)),
                              !.d = @ + 1]]
    /\ UNCHANGED <<now, storage, pending, orders, orderRows, locationPrices,
                   products, query>>

\* the loop of the i-th location ends: createDailyReports returns and the
\* location's totalCost is computed
LocationReportStep(i) ==
    /\ report.pc = "running"
    /\ i \in DOMAIN report.calls
    /\ report.calls[i].pc = "loop"
    /\ ~ LoopContinues(report.calls[i].d, report.endDate)
    /\ report' = [report EXCEPT !.calls[i] =
                    [@ EXCEPT !.pc = "returned",
                              !.totalCost =
                                 TotalCost(report.calls[i].dailyReports)]]
    /\ UNCHANGED <<now, storage, pending, orders, orderRows, locationPrices,
                   products, query>>

\* Promise.all: the location reports in the order of the locations
LocationReports(locations, calls) ==
    [i \in 1..Len(locations) |->
        [location     |-> locations[i],
         dailyReports |-> calls[i].dailyReports,
         totalCost    |-> calls[i].totalCost]]

\* a slip: Promise.race for Promise.all
AnyReturned(calls) ==
    calls = <<>> \/ \E i \in DOMAIN calls : calls[i].pc = "returned"

\* Promise.all resolves when every promise of the list has
AllReturned(calls) == \A i \in DOMAIN calls : calls[i].pc = "returned"

\* report: every location report is there, the Report is returned
ReturnReport ==
    /\ report.pc = "running"
    /\ AllReturned(report.calls)
    /\ report' = [report EXCEPT !.pc = "done",
                                !.result = LocationReports(report.locations,
                                                           report.calls)]
    /\ UNCHANGED <<now, storage, pending, orders, orderRows, locationPrices,
                   products, query>>

\* the same request is sent once more
ReportAgain ==
    /\ report.pc = "done"
    /\ report.call = 1
    /\ report' \in StartedReports([startDate   |-> report.startDate,
                                    endDate     |-> report.endDate,
                                    locationIds |-> report.locationIds],
                                   2, report.result)
    /\ UNCHANGED <<now, storage, pending, orders, orderRows, locationPrices,
                   products, query>>

InitReport ==
    /\ now = 0
    /\ storage = <<>>
    /\ pending = <<>>
    /\ orders = <<>>
    /\ orderRows = {}
    /\ locationPrices = <<>>
    /\ products \in SUBSET Products
    /\ report = NoReport
    /\ query = NoQuery

\* the tables are filled before the report is asked for
NextReport ==
    \/ /\ report.pc = "idle"
       /\ Len(locationPrices) < MaxReportPrices
       /\ \E l \in PricedLocations, price \in Prices, validFrom \in ReportDays :
             AddLocationPrice(l, price, validFrom)
    \/ /\ report.pc = "idle"
       /\ Len(storage) < MaxReportRows
       /\ \E l \in Locations, p \in products, q \in StockAmounts :
             AddStorageToLocation(l, p, q)
    \/ \E input \in ReportInputs : Report(input)
    \/ \E i \in 1..Cardinality(ReportLocationIds) : FindProducts(i)
    \/ \E i \in 1..Cardinality(ReportLocationIds) : DailyReportStep(i)
    \/ \E i \in 1..Cardinality(ReportLocationIds) : LocationReportStep(i)
    \/ ReturnReport
    \/ ReportAgain

SpecReport == InitReport /\ [][NextReport]_vars

----------------------------------------------------------------------------
(* Queries over a list of locations *)

\* the throw of a query: no table read, no result
Rejected(name, locationIds) ==
    [name |-> name, locationIds |-> locationIds, read |-> FALSE,
     outcome |-> "error", result |-> <<>>]

\* the return of a query: its findAll has run
Answered(name, locationIds, result) ==
    [name |-> name, locationIds |-> locationIds, read |-> TRUE,
     outcome |-> "ok", result |-> result]

\* the orders of the locations with one of the statuses, newest first
\*   Order.findAll({where: {status, locationId: {[Op.in]: locationIds}},
\*                  order: [['createdAt', 'DESC']]})
OrdersOf(orderTable, statuses, locationIds) ==
    LET newestFirst == [i \in 1..Len(orderTable) |->
                            orderTable[Len(orderTable) + 1 - i]]
        matches(o) == o.status \in statuses /\ o.locationId \in locationIds
    IN  SelectSeq(newestFirst, matches)

\* locationsWithStorages: an empty locationIds throws before Location.findAll
LocationsWithStoragesQuery(locationIds) ==
    /\ query' = IF locationIds = {}
                THEN Rejected("locationsWithStorages", locationIds)
                ELSE Answered("locationsWithStorages", locationIds,
                              LocationsWithStorages(storage, locationIds))
    /\ UNCHANGED <<now, storage, pending, orders, orderRows, locationPrices,
                   products, report>>

\* openOrders: an empty locationIds throws before Order.findAll
OpenOrders(locationIds) ==
    /\ query' = IF locationIds = {}
                THEN Rejected("openOrders", locationIds)
                ELSE Answered("openOrders", locationIds,
                              OrdersOf(orders, {"Avattu"}, locationIds))
    /\ UNCHANGED <<now, storage, pending, orders, orderRows, locationPrices,
                   products, report>>

\* closedOrders: an empty locationIds throws before Order.findAll
ClosedOrders(locationIds) ==
    /\ query' = IF locationIds = {}
                THEN Rejected("closedOrders", locationIds)
                ELSE Answered("closedOrders", locationIds,
                              OrdersOf(orders, {"Noudettu", "Peruttu"},
                                       locationIds))
    /\ UNCHANGED <<now, storage, pending, orders, orderRows, locationPrices,
                   products, report>>

\* the four queries that take a list of locations, over a store with some
\* orders and a snapshot; the report is asked for one day
NextQuery ==
    \/ \E p \in Products, q \in OrderAmounts :
          AddOrder(1, "Avattu", <<[productId |-> p, palletAmount |-> q]>>)
    \/ \E o \in 1..MaxOrders : CollectOrder(o)
    \/ \E o \in 1..MaxOrders : CancelOrder(o)
    \/ \E q \in StockAmounts :
          Len(storage) < MaxReportRows /\ AddStorageToLocation(1, 1, q)
    \/ \E ids \in SUBSET ReportLocationIds : LocationsWithStoragesQuery(ids)
    \/ \E ids \in SUBSET ReportLocationIds : OpenOrders(ids)
    \/ \E ids \in SUBSET ReportLocationIds : ClosedOrders(ids)
    \/ \E ids \in {{}, {1}} :
          Report([startDate |-> 0, endDate |-> 0, locationIds |-> ids])
    \/ \E i \in 1..Cardinality(ReportLocationIds) : FindProducts(i)
    \/ \E i \in 1..Cardinality(ReportLocationIds) : DailyReportStep(i)
    \/ \E i \in 1..Cardinality(ReportLocationIds) : LocationReportStep(i)
    \/ ReturnReport

SpecQuery == Init /\ [][NextQuery]_vars

----------------------------------------------------------------------------
(* Claims about the snapshot store *)

\* C1: every snapshot returned for a location by a latest-per-product read
\* (locationsWithStorages, and the current-stock lookup of collectPallets and
\* addPallets) is a snapshot of that location carrying the maximum createdAt,
\* not later than the query time, of its (location, product) key; a product
\* with no snapshot at the location gets none.
C1_LatestRead ==
    \A l \in Locations :
        LET key(p) == {r \in RowsOf(storage) :
                        r.locationId = l /\ r.productId = p /\ r.createdAt <= now}
            latest(r) == /\ r \in key(r.productId)
                         /\ \A y \in key(r.productId) : y.createdAt <= r.createdAt
        IN  /\ \A r \in LatestStorages(storage, l) : latest(r)
            /\ \A r \in CurrentStorages(storage, l) : latest(r)
            /\ \A p \in Products :
                 key(p) # {} =>
                    /\ \E r \in LatestStorages(storage, l) :
                          r.productId = p
                    /\ \E r \in CurrentStorages(storage, l) : r.productId = p

\* C2: locationsWithStorages returns exactly one snapshot per product of a
\* location, and among snapshots sharing the newest createdAt it is the one
\* inserted last (highest storageId).
C2_ExactlyOnePerProduct ==
    \A l \in Locations, p \in Products :
        LET key == {r \in RowsOf(storage) : r.locationId = l /\ r.productId = p}
            got == {r \in LatestStorages(storage, l) : r.productId = p}
        IN  key # {} =>
                /\ Cardinality(got) = 1
                /\ \A r \in got : r.storageId = Max({y.storageId : y \in
                        {x \in key : \A z \in key : z.createdAt <= x.createdAt}})

\* C3: the ledger is append-only: every step keeps every stored snapshot, at
\* its place and with its locationId, productId, palletAmount and createdAt.
C3_AppendOnly ==
    [][\A i \in DOMAIN storage :
          i \in DOMAIN storage' /\ storage'[i] = storage[i]]_vars

\* a key whose history is still there: an older snapshot with another quantity
C3_Witness ==
    \E i, j \in DOMAIN storage :
        /\ i < j
        /\ storage[i].locationId = storage[j].locationId
        /\ storage[i].productId = storage[j].productId
        /\ storage[i].createdAt < storage[j].createdAt
        /\ storage[i].palletAmount # storage[j].palletAmount

\* C4: addPallets with amount n for product p at location l writes the
\* quantity of the latest stored snapshot of (l, p), or 0, plus n.
C4_AddPalletsAddsToCurrent ==
    [][\A l \in Locations, sr \in StorageInputs :
          AddPallets(l, sr) =>
            \A i \in 1..Len(sr) :
                LET key == {r \in RowsOf(storage) :
                              r.locationId = l /\ r.productId = sr[i].productId}
                    newest == {x \in key : \A z \in key : z.createdAt <= x.createdAt}
                    current == IF key = {} THEN 0
                               ELSE (CHOOSE x \in newest : \A z \in newest :
                                        z.storageId <= x.storageId).palletAmount
                IN  pending'[Len(pending')].rows[i].palletAmount
                        = current + sr[i].palletAmount]_vars

\* C5: collectPallets with amount q for product p at location l writes
\* exactly q, whatever the current quantity of (l, p).
C5_CollectPalletsWritesAbsolute ==
    [][\A l \in Locations, sr \in StorageInputs :
          CollectPallets(l, sr) =>
            \A i \in 1..Len(sr) :
                pending'[Len(pending')].rows[i].palletAmount = sr[i].palletAmount]_vars

----------------------------------------------------------------------------
(* Claims about availability *)

\* C6: every record of availableStorages is a newest facility snapshot with
\* its quantity minus the sum of palletAmount over the rows of open orders
\* for its product, negative when more is reserved than stored; every product
\* with facility stock has a record.
C6_AvailableIsStockMinusReserved ==
    LET facility == {r \in RowsOf(storage) : r.locationId \in Facilities}
        reserved(p) ==
            LET sum[k \in 0..Len(orders)] ==
                    IF k = 0 THEN 0
                    ELSE sum[k - 1] +
                         (IF orders[k].status = "Avattu" /\
                             \E row \in orderRows : row.orderId = k /\ row.productId = p
                          THEN (CHOOSE row \in orderRows :
                                  row.orderId = k /\ row.productId = p).palletAmount
                          ELSE 0)
            IN  sum[Len(orders)]
        got == AvailableStorages(storage, orders, orderRows)
    IN  /\ \A rec \in got :
            /\ rec.storageId \in DOMAIN storage
            /\ storage[rec.storageId] \in facility
            /\ storage[rec.storageId].productId = rec.productId
            /\ \A y \in facility :
                  y.productId = rec.productId
                     => y.createdAt <= storage[rec.storageId].createdAt
            /\ rec.palletAmount
                  = storage[rec.storageId].palletAmount - reserved(rec.productId)
        /\ \A r \in facility : \E rec \in got : rec.productId = r.productId

\* stock 20 with 8 reserved is 12 for one product, stock 20 with 25 reserved
\* is -5 for the other
C6_Witness ==
    LET got == AvailableStorages(storage, orders, orderRows)
    IN  /\ \E rec \in got : rec.palletAmount = 12
        /\ \E rec \in got : rec.palletAmount = 0 - 5

\* C7: collectOrder or cancelOrder on an open order changes only that order's
\* status; its rows stop being reserved, so every availableStorages record
\* rises by the order's palletAmount for the record's product.
C7_ClosingReleasesReservation ==
    [][\A o \in DOMAIN orders :
          (orders[o].status = "Avattu" /\ (CollectOrder(o) \/ CancelOrder(o))) =>
            LET amount(p) ==
                    IF \E row \in orderRows : row.orderId = o /\ row.productId = p
                    THEN (CHOOSE row \in orderRows :
                            row.orderId = o /\ row.productId = p).palletAmount
                    ELSE 0
            IN  /\ UNCHANGED <<now, storage, pending, orderRows, locationPrices, products, report, query>>
                /\ DOMAIN orders' = DOMAIN orders
                /\ \A k \in DOMAIN orders :
                      /\ orders'[k].locationId = orders[k].locationId
                      /\ orders'[k].orderId = orders[k].orderId
                      /\ k # o => orders'[k].status = orders[k].status
                /\ \A row \in OpenOrderRows(orders', orderRows') : row.orderId # o
                /\ AvailableStorages(storage', orders', orderRows')
                     = {[rec EXCEPT !.palletAmount = @ + amount(rec.productId)] :
                          rec \in AvailableStorages(storage, orders, orderRows)}
      ]_vars

\* a closed order whose product is in facility stock, nothing left reserved
C7_Witness ==
    \E o \in DOMAIN orders, rec \in AvailableStorages(storage, orders, orderRows) :
        /\ orders[o].status \in {"Noudettu", "Peruttu"}
        /\ \E row \in orderRows :
              row.orderId = o /\ row.productId = rec.productId
        /\ rec.palletAmount = storage[rec.storageId].palletAmount

\* C8: availableStorages has exactly one record for a product held by the
\* facilities, and it is based on the snapshot with the greatest createdAt
\* over all facilities.
C8_OneRecordAcrossFacilities ==
    \A p \in Products :
        LET held == {r \in RowsOf(storage) :
                        r.locationId \in Facilities /\ r.productId = p}
            got == {rec \in AvailableStorages(storage, orders, orderRows) :
                        rec.productId = p}
        IN  held # {} =>
                /\ Cardinality(got) = 1
                /\ \A rec \in got : \A y \in held : y.createdAt <= rec.createdAt

----------------------------------------------------------------------------
(* Claims about the price timeline *)

\* C9: for every location and date D the price lookup yields a version of the
\* location with the maximum validFrom among those with validFrom <= D, and
\* nothing when there is none: the price steps on each validFrom day.
C9_EffectivePrice ==
    \A l \in Locations, D \in Days :
        LET versions == {v \in RowsOf(locationPrices) : v.locationId = l}
            upTo == {v \in versions : v.validFrom <= D}
            got == LocationPriceAt(locationPrices, l, D)
        IN  /\ upTo = {} => got = {}
            /\ upTo # {} =>
                 /\ got # {}
                 /\ \A v \in got :
                       /\ v \in upTo
                       /\ \A w \in upTo : w.validFrom <= v.validFrom
            /\ got = PricesValidAtStart(locationPrices, {l}, D)

\* versions (day 0, 50.0) and (day 2, 67.4): 50.0 on day 1, 67.4 on day 3
C9_Witness ==
    \E l \in Locations :
        /\ {v.price : v \in LocationPriceAt(locationPrices, l, 1)} = {500}
        /\ {v.price : v \in LocationPriceAt(locationPrices, l, 3)} = {674}
        /\ now = 3

\* C10: the price lookup of the report returns exactly the versions of the
\* requested locations that are in effect at the start (validFrom <= start,
\* no later version of the location at or before start) or have
\* start <= validFrom <= end.
C10_PriceQueryIsUnion ==
    \A startDate \in Days, endDate \in Days, ids \in SUBSET Locations :
        PriceQuery(locationPrices, ids, startDate, endDate)
          = {v \in RowsOf(locationPrices) :
                /\ v.locationId \in ids
                /\ \/ /\ v.validFrom <= startDate
                      /\ ~ \E w \in RowsOf(locationPrices) :
                              /\ w.locationId = v.locationId
                              /\ v.validFrom < w.validFrom
                              /\ w.validFrom <= startDate
                   \/ (startDate <= v.validFrom /\ v.validFrom <= endDate)}

\* a version set before the window and still active at its start, one set
\* inside the window, one set after its end: the first two are returned
C10_Witness ==
    \E l \in Locations, a, b, c \in RowsOf(locationPrices) :
        /\ a.locationId = l /\ b.locationId = l /\ c.locationId = l
        /\ a.validFrom < 1 /\ b.validFrom = 2 /\ c.validFrom > 2
        /\ PriceQuery(locationPrices, {l}, 1, 2) = {a, b}

\* C11: when a location has several versions with one validFrom, the price
\* lookups for a date on or after it (and before any later version) yield a
\* single version, the one inserted last (the greatest locationPriceId).
C11_LastWriteWins ==
    \A l \in Locations, D \in Days :
        LET upTo == {v \in RowsOf(locationPrices) :
                        v.locationId = l /\ v.validFrom <= D}
            newest == {v \in upTo : \A w \in upTo : w.validFrom <= v.validFrom}
            last == {v \in newest :
                        \A w \in newest : w.locationPriceId <= v.locationPriceId}
        IN  Cardinality(newest) > 1 =>
                /\ LocationPriceAt(locationPrices, l, D) = last
                /\ PricesValidAtStart(locationPrices, {l}, D) = last

----------------------------------------------------------------------------
(* Claims about the report *)

\* C12: a report returned for startDate <= endDate has, for every location,
\* exactly one daily entry per day of startDate..endDate, in ascending order
\* of date: endDate - startDate + 1 entries, the k-th dated startDate + k - 1.
C12_OneEntryPerDay ==
    (report.pc = "done" /\ report.startDate <= report.endDate) =>
        \A i \in DOMAIN report.result :
            LET dailyReports == report.result[i].dailyReports
            IN  /\ Len(dailyReports) = report.endDate - report.startDate + 1
                /\ \A k \in DOMAIN dailyReports :
                      dailyReports[k].date = report.startDate + k - 1

\* a report of two locations over three days, three entries each
C12_Witness ==
    /\ report.pc = "done"
    /\ report.startDate = 0 /\ report.endDate = 2
    /\ Len(report.result) = 2
    /\ \A i \in DOMAIN report.result :
          [k \in 1..3 |-> report.result[i].dailyReports[k].date] = <<0, 1, 2>>

\* C13: in every location report returned, totalCost is the sum of the
\* totalDailyCost of its daily entries (the sum counted as the size of the
\* disjoint union of one interval 1..totalDailyCost per entry).
C13_TotalCostIsSumOfDays ==
    report.pc = "done" =>
        \A i \in DOMAIN report.result :
            LET dailyReports == report.result[i].dailyReports
            IN  report.result[i].totalCost =
                    Cardinality(UNION {{k} \X (1..dailyReports[k].totalDailyCost) :
                                          k \in DOMAIN dailyReports})

\* two products, three days: 50 a day, 150 for the location
C13_Witness ==
    /\ report.pc = "done"
    /\ \E i \in DOMAIN report.result :
          /\ Len(report.result[i].dailyReports) = 3
          /\ \A k \in 1..3 : report.result[i].dailyReports[k].totalDailyCost = 50
          /\ report.result[i].totalCost = 150

\* C14: in every report returned, on a day d with a price version in effect
\* for the location, the cost of each product report is its palletAmount
\* times the price effective on d (prices are in tenths).
C14_CostIsQuantityTimesPrice ==
    report.pc = "done" =>
        \A i \in DOMAIN report.result :
            \A k \in DOMAIN report.result[i].dailyReports :
                LET daily == report.result[i].dailyReports[k]
                    effective == LocationPriceAt(locationPrices,
                                     report.result[i].location.locationId,
                                     daily.date)
                IN  effective # {} =>
                        \A j \in DOMAIN daily.productReports :
                            \E v \in effective :
                                10 * daily.productReports[j].cost
                                  = daily.productReports[j].palletAmount * v.price

\* C15: in every report returned, the palletAmount of a product on day d is
\* the palletAmount of the latest snapshot of (location, product) created on
\* or before d, when there is one (createdAt read as a day number).
C15_QuantityIsLatestSnapshot ==
    report.pc = "done" =>
        \A i \in DOMAIN report.result :
            \A k \in DOMAIN report.result[i].dailyReports :
                LET daily == report.result[i].dailyReports[k]
                IN  \A j \in DOMAIN daily.productReports :
                        LET upTo == {r \in report.result[i].location.storages :
                                        /\ r.productId = daily.productReports[j].product
                                        /\ r.createdAt <= daily.date}
                            latest == {r \in upTo :
                                        \A y \in upTo : y.createdAt <= r.createdAt}
                        IN  upTo # {} =>
                                \E r \in latest :
                                    daily.productReports[j].palletAmount
                                      = r.palletAmount

\* C16: a report request with startDate > endDate is refused: no Report is
\* returned for it.
C16_StartAfterEndRejected ==
    report.pc = "done" => report.startDate <= report.endDate

\* C18: in every report returned, a day with no price version of the
\* location at or before it has cost 0 in each product report and
\* totalDailyCost 0.
C18_NoPriceMeansZero ==
    report.pc = "done" =>
        \A i \in DOMAIN report.result :
            \A k \in DOMAIN report.result[i].dailyReports :
                LET daily == report.result[i].dailyReports[k]
                IN  LocationPriceAt(locationPrices,
                                    report.result[i].location.locationId,
                                    daily.date) = {} =>
                        /\ daily.totalDailyCost = 0
                        /\ \A j \in DOMAIN daily.productReports :
                              daily.productReports[j].cost = 0

\* C21: whatever the interleaving of the per-location calls, the dates of
\* a request in progress are never changed by a step, and a Report is only
\* returned when every call has returned; it then holds one location report
\* for each requested location that exists, in ascending order of id, each
\* with the days startDate..endDate in order (none when startDate > endDate).
C21_ConcurrentLocationsIndependent ==
    [][/\ (report.pc = "running" /\ report'.call = report.call) =>
              /\ report'.startDate = report.startDate
              /\ report'.endDate = report.endDate
       /\ (report.pc = "running" /\ report'.pc = "done") =>
              /\ \A i \in DOMAIN report.calls : report.calls[i].pc = "returned"
              /\ {report'.result[i].location.locationId :
                     i \in DOMAIN report'.result}
                   = report.locationIds \cap Locations
              /\ Len(report'.result) = Cardinality(report.locationIds \cap Locations)
              /\ \A i \in DOMAIN report'.result :
                    LET days == report.endDate - report.startDate + 1
                    IN  /\ Len(report'.result[i].dailyReports)
                             = IF days > 0 THEN days ELSE 0
                        /\ \A k \in DOMAIN report'.result[i].dailyReports :
                              report'.result[i].dailyReports[k].date
                                = report.startDate + k - 1
      ]_vars

\* two locations over three days: the call for one location has returned
\* its three entries while the other is still at its second day, and
\* nothing has been returned yet
C21_Witness ==
    /\ report.pc = "running"
    /\ report.startDate = 0 /\ report.endDate = 2
    /\ Len(report.calls) = 2
    /\ \E i, j \in DOMAIN report.calls :
          /\ report.calls[i].pc = "returned"
          /\ Len(report.calls[i].dailyReports) = 3
          /\ report.calls[j].pc = "loop"
          /\ report.calls[j].d = 1
          /\ Len(report.calls[j].dailyReports) = 1
    /\ report.result = <<>>

C20_DailyTotalsAreSums ==
    report.pc = "done" =>
        \A i \in DOMAIN report.result :
            LET dailyReports == report.result[i].dailyReports
            IN  /\ \A k \in DOMAIN dailyReports :
                      LET productReports == dailyReports[k].productReports
                      IN  /\ dailyReports[k].totalDailyPallets =
                                Cardinality(UNION {{j} \X (1..productReports[j].palletAmount) :
                                                      j \in DOMAIN productReports})
                          /\ dailyReports[k].totalDailyCost =
                                Cardinality(UNION {{j} \X (1..productReports[j].cost) :
                                                      j \in DOMAIN productReports})
                /\ products = {} =>
                      /\ report.startDate <= report.endDate =>
                            Len(dailyReports) = report.endDate - report.startDate + 1
                      /\ \A k \in DOMAIN dailyReports :
                            /\ dailyReports[k].productReports = <<>>
                            /\ dailyReports[k].totalDailyPallets = 0
                            /\ dailyReports[k].totalDailyCost = 0
                      /\ report.result[i].totalCost = 0

\* no product: a report of a location over three days has three entries with
\* totals 0
C20_Witness ==
    /\ products = {}
    /\ report.pc = "done"
    /\ \E i \in DOMAIN report.result :
          /\ Len(report.result[i].dailyReports) = 3
          /\ \A k \in 1..3 :
                /\ report.result[i].dailyReports[k].totalDailyPallets = 0
                /\ report.result[i].dailyReports[k].totalDailyCost = 0
          /\ report.result[i].totalCost = 0

----------------------------------------------------------------------------
(* Claims about the writes of snapshots *)

C17_NoNegativeSnapshot ==
    /\ \A r \in RowsOf(storage) : r.palletAmount >= 0
    /\ \A b \in DOMAIN pending :
          \A k \in DOMAIN pending[b].rows : pending[b].rows[k].palletAmount >= 0

\* C24: when every delta request made for a (location, product) key has
\* completed (no write is in flight), the latest snapshot of the key holds
\* the first quantity of the key plus the sum of the deltas requested: with
\* d requests of n each, first + d * n.  Keys whose greatest createdAt is
\* shared by two snapshots are left aside.
C24_NoLostUpdate ==
    pending = <<>> =>
        \A p \in Products :
            LET key == {r \in RowsOf(storage) :
                            r.locationId = 1 /\ r.productId = p}
                first == CHOOSE r \in key : \A y \in key : r.storageId <= y.storageId
                n == CHOOSE n \in DeltaAmounts : TRUE
            IN  key # {} =>
                    \A r \in key :
                        (\A y \in key \ {r} : y.createdAt < r.createdAt) =>
                            r.palletAmount
                              = first.palletAmount + (Cardinality(key) - 1) * n

\* C25: once addPallets or collectPallets has returned its result, the rows
\* it computed are in the store (each call whose result has been returned
\* is in pending until its rows are stored), so a latest-per-product read
\* made then sees them or later ones of their key.
C25_StoredOnReturn ==
    \A b \in DOMAIN pending :
        \A k \in DOMAIN pending[b].rows :
            LET row == pending[b].rows[k]
            IN  /\ \E r \in RowsOf(storage) :
                      /\ r.locationId = row.locationId
                      /\ r.productId = row.productId
                      /\ r.palletAmount = row.palletAmount
                      /\ r.createdAt = row.createdAt
                /\ \E r \in LatestStorages(storage, row.locationId) :
                      /\ r.productId = row.productId
                      /\ r.createdAt >= row.createdAt

\* C26: every snapshot locationWithStorages returns for a location is the
\* latest of its own product at that location: no snapshot of the same
\* location and product is newer.
C26_OnlyLatestOfOwnProduct ==
    \A l \in Locations :
        \A r \in LocationWithStorages(storage, l) :
            \A y \in RowsOf(storage) :
                (y.locationId = l /\ y.productId = r.productId) =>
                    y.createdAt <= r.createdAt

----------------------------------------------------------------------------
(* Claims about the queries over a list of locations *)

\* C23: a request to locationsWithStorages, openOrders, closedOrders or
\* report with an empty list of locations ends in an error, and has read no
\* table.
C23_EmptyLocationSetRejected ==
    /\ (query.name # "none" /\ query.locationIds = {}) =>
            (query.outcome = "error" /\ ~query.read)
    /\ (report.pc # "idle" /\ report.locationIds = {}) =>
            (report.pc = "error" /\ ~report.read)

----------------------------------------------------------------------------
(* Claims about the status of an order *)

\* C27: an order whose status is Noudettu (collected) or Peruttu (cancelled)
\* keeps that status in every step: no collectOrder or cancelOrder call
\* changes it.
C27_ClosedStatusIsFinal ==
    [][\A o \in DOMAIN orders :
          orders[o].status \in {"Noudettu", "Peruttu"} =>
              orders'[o].status = orders[o].status
      ]_vars

====
